---- MODULE Spec2Model ----
(***************************************************************************)
(* Model of ext_build.py: the CmakeExtension lifecycle controller, its     *)
(* command builders, its command runner (one Popen'ed child at a time,     *)
(* stdout drained to EOF, then stderr, then wait) and main().              *)
(*                                                                         *)
(* Strings are sequences of characters.  A run of characters that holds    *)
(* neither "." nor a newline is written as one element, so "/p/a.so\n" is  *)
(* <<"/p/a", ".", "so", "\n">>; split(".", 1) and readlines() then work on  *)
(* the elements exactly as the code works on the characters.               *)
(***************************************************************************)
EXTENDS Integers, Sequences, FiniteSets, TLC

VARIABLES
    osName,        \* os.name of the host: "posix" or "nt"
    args,          \* parsed command line: [clean, dry_run]
    specs,         \* constructor arguments of the listed targets, in list order
    heap,          \* dict objects by identity: id -> ordered mapping
    extensions,    \* the constructed CmakeExtension objects, in list order
    fs,            \* file system: existing path -> text of the file
    fs0,           \* the file system the invocation started with
    pc,            \* position of main()
    cur,           \* index of the target the for loop of main() is at
    phase,         \* phase operation in progress
    batch,         \* commands handed to _run_cmd
    idx,           \* index in batch of the command _run_cmd is at
    header,        \* term_header handed to _run_cmd
    proc,          \* the Popen'ed child and the position of the runner in it
    log,           \* lines printed to standard output
    launched,      \* every Popen so far, with the child's exit code
    phases,        \* phase operations called so far: [target, phase]
    caught,        \* main() caught a SubCommandError
    raised,        \* the exception object the runner raised last
    exitStatus     \* exit status of the process once main() has returned

vars == <<osName, args, specs, heap, extensions, fs, fs0, pc, cur, phase, batch,
          idx, header, proc, log, launched, phases, caught, raised, exitStatus>>

(***************************************************************************)
(* Bounds of the model.                                                    *)
(***************************************************************************)
\* targets listed in `extensions`
MaxTargets == 2
\* lines all the children of one invocation write, stdout and stderr together
MaxLines == 2
\* lines an OS pipe holds before a write to it blocks
PipeCap == 1

(***************************************************************************)
(* Strings.                                                                *)
(***************************************************************************)
DOT == "."
NL == "\n"
Str(s) == <<s>>

\* str.split(".", 1)[0]: the text before the first "."
RECURSIVE SplitDotHead(_)
SplitDotHead(s) ==
    IF s = <<>> \/ Head(s) = DOT THEN <<>>
    ELSE <<Head(s)>> \o SplitDotHead(Tail(s))

\* file.readlines(): the lines of a text, each keeping its line terminator
RECURSIVE readlines(_)
readlines(t) ==
    IF t = <<>> THEN <<>>
    ELSE IF \E i \in 1..Len(t) : t[i] = NL
         THEN LET n == CHOOSE i \in 1..Len(t) :
                           t[i] = NL /\ \A j \in 1..(i - 1) : t[j] # NL
              IN <<SubSeq(t, 1, n)>> \o readlines(SubSeq(t, n + 1, Len(t)))
         ELSE <<t>>

\* " ".join(cmd)
RECURSIVE JoinSpace(_)
JoinSpace(cmd) ==
    IF cmd = <<>> THEN <<>>
    ELSE IF Len(cmd) = 1 THEN cmd[1]
    ELSE cmd[1] \o <<" ">> \o JoinSpace(Tail(cmd))

\* osp.join(a, b) for a relative b
OspJoin(a, b) == a \o <<"/">> \o b

(***************************************************************************)
(* Module-level constants of ext_build.py.                                 *)
(***************************************************************************)
CMAKE_BIN(os) ==
    IF os = "nt" THEN Str("/cmake/bin/cmake") \o <<DOT, "exe">>
    ELSE Str("/cmake/bin/cmake")

PYBIND11_CMAKE_DIR == Str("/pybind11/share/cmake/pybind11")

PROJECT_ROOT == Str("/p")

\* a dict is the sequence of its items in insertion order
_CMAKE_DEFAULT_DEF ==
    << [k |-> Str("CMAKE_EXPORT_COMPILE_COMMANDS"), v |-> Str("ON")],
       [k |-> Str("pybind11_DIR"), v |-> PYBIND11_CMAKE_DIR] >>

_cmd_term_headers ==
    [configure |-> "[CMAKE]", build |-> "[BUILD]", clean |-> "[CLEAN]",
     stubgen |-> "[STUB]"]

(***************************************************************************)
(* Dicts.                                                                  *)
(***************************************************************************)
HasKey(d, k) == \E i \in 1..Len(d) : d[i].k = k

Lookup(d, k) == d[CHOOSE i \in 1..Len(d) : d[i].k = k].v

Keys(d) == {d[i].k : i \in 1..Len(d)}

\* d[k] = v
SetItem(d, k, v) ==
    IF HasKey(d, k)
    THEN [i \in 1..Len(d) |-> IF d[i].k = k THEN [k |-> k, v |-> v] ELSE d[i]]
    ELSE Append(d, [k |-> k, v |-> v])

(***************************************************************************)
(* CmakeExtension.__init__                                                 *)
(***************************************************************************)
\* the loop "for k, v in _CMAKE_DEFAULT_DEF.items(): if k not in d: d[k] = v"
\* with every default written unconditionally
RECURSIVE AddDefaultsOverwriting(_, _)
AddDefaultsOverwriting(d, defs) ==
    IF defs = <<>> THEN d
    ELSE AddDefaultsOverwriting(SetItem(d, Head(defs).k, Head(defs).v), Tail(defs))

\* the loop "for k, v in _CMAKE_DEFAULT_DEF.items(): if k not in d: d[k] = v"
RECURSIVE AddDefaults(_, _)
AddDefaults(d, defs) ==
    IF defs = <<>> THEN d
    ELSE AddDefaults(IF HasKey(d, Head(defs).k) THEN d
                     ELSE SetItem(d, Head(defs).k, Head(defs).v),
                     Tail(defs))

\* the object __init__ leaves behind; cmake_extra_def is the identity of the
\* dict handed in, which __init__ stores without copying
CmakeExtension(module_name, cmake_src_dir, cmake_extr_def, dry_run) ==
    [module_name     |-> module_name,
     cmake_src_dir   |-> cmake_src_dir,
     cmake_bin_dir   |-> OspJoin(cmake_src_dir, Str("cmake-build-release")),
     cmake_extra_def |-> cmake_extr_def,
     dry_run         |-> dry_run,
     cmd_in_shell    |-> (osName = "nt"),
     rm_cmd          |-> IF osName = "nt" THEN Str("del") ELSE Str("rm")]

(***************************************************************************)
(* Command builders.                                                       *)
(***************************************************************************)
\* f"-D{k}={v}"
DFlag(item) == <<"-D">> \o item.k \o <<"=">> \o item.v

\* _get_configure_cmd with the generator selected on every host
_get_configure_cmd_always_ninja(ext) ==
    << CMAKE_BIN(osName), Str("-S"), ext.cmake_src_dir, Str("-B"),
       ext.cmake_bin_dir, Str("-DCMAKE_BUILD_TYPE=Release") >>
    \o << Str("-G"), Str("Ninja") >>
    \o [i \in 1..Len(heap[ext.cmake_extra_def]) |->
            DFlag(heap[ext.cmake_extra_def][i])]

_get_configure_cmd(ext) ==
    << CMAKE_BIN(osName), Str("-S"), ext.cmake_src_dir, Str("-B"),
       ext.cmake_bin_dir, Str("-DCMAKE_BUILD_TYPE=Release") >>
    \o (IF osName # "nt" THEN << Str("-G"), Str("Ninja") >> ELSE <<>>)
    \o [i \in 1..Len(heap[ext.cmake_extra_def]) |->
            DFlag(heap[ext.cmake_extra_def][i])]

_get_build_cmd(ext) ==
    << CMAKE_BIN(osName), Str("--build"), ext.cmake_bin_dir, Str("--config"),
       Str("release") >>

_get_post_build_cmd(ext) ==
    << CMAKE_BIN(osName), Str("--install"), ext.cmake_bin_dir >>

_get_stub_gen_cmd(ext) ==
    << Str("stubgen"), Str("--module"), ext.module_name, Str("--output"),
       PROJECT_ROOT, Str("--include-docstrings") >>

\* osp.exists(path)
OspExists(path) == path \in DOMAIN fs

manifest_path(ext) ==
    OspJoin(ext.cmake_bin_dir, <<"install_manifest", DOT, "txt">>)

\* f"{lib_path.split('.', 1)[0]}.pyi"
pyi_path(lib_path) == SplitDotHead(lib_path) \o <<DOT, "pyi">>

\* the removal commands the loop over the manifest's lines appends
RECURSIVE RemovalCmds(_, _)
RemovalCmds(ext, lines) ==
    IF lines = <<>> THEN <<>>
    ELSE (IF OspExists(Head(lines)) THEN << <<ext.rm_cmd, Head(lines)>> >> ELSE <<>>)
         \o (IF OspExists(pyi_path(Head(lines)))
             THEN << <<ext.rm_cmd, pyi_path(Head(lines))>> >> ELSE <<>>)
         \o RemovalCmds(ext, Tail(lines))

\* _get_clean_cmd starting with a recursive removal of the output directory
_get_clean_cmd_removing_dir(ext) ==
    << << ext.rm_cmd, Str("-r"), ext.cmake_bin_dir >> >>
    \o (IF ~OspExists(manifest_path(ext)) THEN <<>>
        ELSE RemovalCmds(ext, readlines(fs[manifest_path(ext)])))

_get_clean_cmd(ext) ==
    << << CMAKE_BIN(osName), Str("--build"), ext.cmake_bin_dir, Str("--target"),
          Str("clean") >> >>
    \o (IF ~OspExists(manifest_path(ext)) THEN <<>>
        ELSE RemovalCmds(ext, readlines(fs[manifest_path(ext)])))

(***************************************************************************)
(* Inputs: hosts, command lines, listed targets, file systems.             *)
(***************************************************************************)
\* identity of the dict the default argument `cmake_extr_def = {}` is bound to
DefaultArg == 0
\* identity of a dict a caller passes as cmake_extr_def
CallerArg == 1

ModuleName(t) ==
    IF t = 1 THEN <<"python_template", DOT, "_ext">>
    ELSE <<"python_template", DOT, "_ext", ToString(t)>>

SrcDir(t) ==
    IF t = 1 THEN OspJoin(PROJECT_ROOT, Str("csrcs"))
    ELSE OspJoin(PROJECT_ROOT, <<"csrcs", ToString(t)>>)

\* override mappings a caller passes
CallerDefs ==
    { <<>>,
      << [k |-> Str("WITH_X"), v |-> Str("1")],
         [k |-> Str("pybind11_DIR"), v |-> Str("/opt/pybind11")] >>,
      << [k |-> Str("pybind11_DIR"), v |-> Str("/opt/pybind11")],
         [k |-> Str("CMAKE_EXPORT_COMPILE_COMMANDS"), v |-> Str("OFF")] >> }

TargetLists ==
    UNION { { s \in [1..n -> [module_name : {ModuleName(t) : t \in 1..n},
                              cmake_src_dir : {SrcDir(t) : t \in 1..n},
                              cmake_extr_def : {DefaultArg, CallerArg}]] :
                  \A t \in 1..n : /\ s[t].module_name = ModuleName(t)
                                  /\ s[t].cmake_src_dir = SrcDir(t) } :
            n \in 1..MaxTargets }

BinDir1 == OspJoin(SrcDir(1), Str("cmake-build-release"))
Manifest1 == OspJoin(BinDir1, <<"install_manifest", DOT, "txt">>)

LibA == <<"/out/mylib", DOT, "cpython-310", DOT, "so">>
StubA == <<"/out/mylib", DOT, "pyi">>
LibB == <<"/out/other", DOT, "so">>
Artifacts == {LibA, StubA, LibB}

RECURSIVE JoinNL(_)
JoinNL(ls) ==
    IF Len(ls) = 1 THEN ls[1] ELSE ls[1] \o <<NL>> \o JoinNL(Tail(ls))

\* texts of an install manifest: installed paths one per line, no path
\* twice, the last line with or without a line terminator
ManifestTexts ==
    LET lists == { <<LibA>>, <<LibA, LibB>>, <<LibB, LibA>> }
    IN {JoinNL(ls) : ls \in lists} \cup {JoinNL(ls) \o <<NL>> : ls \in lists}

FileSystem(paths, text) ==
    [p \in paths |-> IF p = Manifest1 THEN text ELSE <<>>]

\* file systems a --clean invocation may find
CleanWorlds ==
    { FileSystem(a, <<>>) : a \in SUBSET Artifacts }
    \cup { FileSystem(a \cup {BinDir1}, <<>>) : a \in SUBSET Artifacts }
    \cup { FileSystem(a \cup {BinDir1, Manifest1}, m) :
               a \in SUBSET Artifacts, m \in ManifestTexts }

\* a tree never built, and a tree built and installed once
Pristine == FileSystem({}, <<>>)
Built == FileSystem({BinDir1, Manifest1, LibA, StubA}, LibA)

ExitCodes == {0, 1}

Scripts(n) == UNION { [1..k -> {"out", "err"}] : k \in 0..n }

\* "class SubCommandError(Exception): ..." raised as "raise SubCommandError":
\* an instance made without arguments
SubCommandError == [type |-> "SubCommandError", args |-> <<>>]

NoException == [type |-> "none", args |-> <<>>]

NoProc ==
    [stage |-> "none", script |-> <<>>, out |-> 0, err |-> 0,
     exited |-> FALSE, code |-> 0]

Init ==
    /\ osName \in {"posix", "nt"}
    /\ args \in [clean : BOOLEAN, dry_run : BOOLEAN]
    /\ specs \in TargetLists
    /\ heap \in [{DefaultArg, CallerArg} -> CallerDefs]
    /\ heap[DefaultArg] = <<>>
    /\ (\A t \in 1..Len(specs) : specs[t].cmake_extr_def # CallerArg)
           => heap[CallerArg] = <<>>
    \* each input is varied where the code reads it: override mappings where
    \* the configure command is built, file systems where clean() looks at
    \* them, and main() itself passes no mapping
    /\ (args.clean \/ (~args.dry_run /\ Len(specs) > 1))
           => \A t \in 1..Len(specs) : specs[t].cmake_extr_def = DefaultArg
    /\ fs \in IF ~args.clean THEN {Pristine}
              ELSE IF Len(specs) = 1 THEN CleanWorlds ELSE {Pristine, Built}
    /\ fs0 = fs
    /\ extensions = <<>>
    /\ pc = "construct"
    /\ cur = 1
    /\ phase = "idle"
    /\ batch = <<>>
    /\ idx = 1
    /\ header = ""
    /\ proc = NoProc
    /\ log = <<>>
    /\ launched = <<>>
    /\ phases = <<>>
    /\ caught = FALSE
    /\ raised = NoException
    /\ exitStatus = -1

(***************************************************************************)
(* main() and the phase operations.                                        *)
(***************************************************************************)
Ext == extensions[cur]

\* what _run_cmd is called with: a single command is a batch of one
HandToRunner(cmds, ph, hdr) ==
    /\ batch' = cmds
    /\ idx' = 1
    /\ header' = hdr
    /\ phase' = ph
    /\ pc' = "run"

\* _run_cmd has returned to the phase operation that called it
Returned(ph) ==
    /\ pc = "run"
    /\ phase = ph
    /\ proc.stage = "none"
    /\ idx > Len(batch)

\* main() returns: the interpreter exits with status 0
MainReturns ==
    /\ pc' = "done"
    /\ exitStatus' = 0

\* main() constructs the listed targets, one constructor call each
main_construct ==
    /\ pc = "construct"
    /\ LET t == Len(extensions) + 1
           a == specs[t]
       IN /\ heap' = [heap EXCEPT ![a.cmake_extr_def] =
                          AddDefaults(heap[a.cmake_extr_def], _CMAKE_DEFAULT_DEF)]
          /\ extensions' = Append(extensions,
                 CmakeExtension(a.module_name, a.cmake_src_dir, a.cmake_extr_def,
                                args.dry_run))
          /\ pc' = IF t = Len(specs) THEN "loop" ELSE "construct"
    /\ UNCHANGED <<osName, args, specs, fs, fs0, cur, phase, batch, idx, header,
                   proc, log, launched, phases, caught, raised, exitStatus>>

\* the for loop of main() has no target left
main_end ==
    /\ pc = "loop"
    /\ cur > Len(extensions)
    /\ MainReturns
    /\ UNCHANGED <<osName, args, specs, heap, extensions, fs, fs0, cur, phase,
                   batch, idx, header, proc, log, launched, phases, caught, raised>>

\* main() with --clean: ext.clean() up to its call of _run_cmd
clean ==
    /\ pc = "loop"
    /\ cur <= Len(extensions)
    /\ args.clean
    /\ phases' = Append(phases, [target |-> cur, phase |-> "clean"])
    /\ LET cmd == _get_clean_cmd(Ext)
       IN IF Len(cmd) = 0
          THEN /\ log' = Append(log, [kind |-> "msg", header |-> "",
                                      text |-> Str("Nothing to clean")])
               /\ MainReturns
               /\ phase' = "clean"
               /\ UNCHANGED <<batch, idx, header>>
          ELSE /\ HandToRunner(cmd, "clean", _cmd_term_headers.clean)
               /\ UNCHANGED <<log, exitStatus>>
    /\ UNCHANGED <<osName, args, specs, heap, extensions, fs, fs0, cur, proc,
                   launched, caught, raised>>

\* main() after ext.clean() has returned: return
clean_return ==
    /\ Returned("clean")
    /\ MainReturns
    /\ UNCHANGED <<osName, args, specs, heap, extensions, fs, fs0, cur, phase,
                   batch, idx, header, proc, log, launched, phases, caught, raised>>

\* the loop body of main() without the "if args.clean" test before configure
configure_ignoring_clean ==
    /\ pc = "loop"
    /\ cur <= Len(extensions)
    /\ phases' = Append(phases, [target |-> cur, phase |-> "configure"])
    /\ HandToRunner(<<_get_configure_cmd(Ext)>>, "configure",
                    _cmd_term_headers.configure)
    /\ UNCHANGED <<osName, args, specs, heap, extensions, fs, fs0, cur, proc, log,
                   launched, caught, raised, exitStatus>>

\* main() without --clean: ext.configure() up to its call of _run_cmd
configure ==
    /\ pc = "loop"
    /\ cur <= Len(extensions)
    /\ ~args.clean
    /\ phases' = Append(phases, [target |-> cur, phase |-> "configure"])
    /\ HandToRunner(<<_get_configure_cmd(Ext)>>, "configure",
                    _cmd_term_headers.configure)
    /\ UNCHANGED <<osName, args, specs, heap, extensions, fs, fs0, cur, proc, log,
                   launched, caught, raised, exitStatus>>

\* ext.build() up to its first call of _run_cmd
build ==
    /\ Returned("configure")
    /\ phases' = Append(phases, [target |-> cur, phase |-> "build"])
    /\ HandToRunner(<<_get_build_cmd(Ext)>>, "build", _cmd_term_headers.build)
    /\ UNCHANGED <<osName, args, specs, heap, extensions, fs, fs0, cur, proc, log,
                   launched, caught, raised, exitStatus>>

\* ext.build() after the build command: the post-build command, if any
build_post ==
    /\ Returned("build")
    /\ LET post_build_cmd == _get_post_build_cmd(Ext)
       IN IF Len(post_build_cmd) > 0
          THEN HandToRunner(<<post_build_cmd>>, "post_build",
                            _cmd_term_headers.build)
          ELSE /\ phase' = "post_build"
               /\ UNCHANGED <<batch, idx, header, pc>>
    /\ UNCHANGED <<osName, args, specs, heap, extensions, fs, fs0, cur, proc, log,
                   launched, phases, caught, raised, exitStatus>>

\* ext.stubgen() up to its call of _run_cmd
stubgen ==
    /\ Returned("post_build")
    /\ phases' = Append(phases, [target |-> cur, phase |-> "stubgen"])
    /\ HandToRunner(<<_get_stub_gen_cmd(Ext)>>, "stubgen",
                    _cmd_term_headers.stubgen)
    /\ UNCHANGED <<osName, args, specs, heap, extensions, fs, fs0, cur, proc, log,
                   launched, caught, raised, exitStatus>>

\* ext.stubgen() has returned: the for loop of main() takes the next target
main_next ==
    /\ Returned("stubgen")
    /\ cur' = cur + 1
    /\ pc' = "loop"
    /\ phase' = "idle"
    /\ UNCHANGED <<osName, args, specs, heap, extensions, fs, fs0, batch, idx,
                   header, proc, log, launched, phases, caught, raised, exitStatus>>

(***************************************************************************)
(* The command runner and the child it launches.                           *)
(***************************************************************************)
RECURSIVE LinesOf(_)
LinesOf(ls) == IF ls = <<>> THEN 0 ELSE Head(ls).lines + LinesOf(Tail(ls))

HeaderLine(hdr, cmd) ==
    [kind |-> "cmd", header |-> hdr, text |-> JoinSpace(cmd)]

\* the print of a child's line without the term_header
OutputLine_unlabelled(stream, hdr) ==
    [kind |-> stream, header |-> "", text |-> Str("line")]

OutputLine(stream, hdr) ==
    [kind |-> stream, header |-> hdr, text |-> Str("line")]

\* what a command that exits 0 does to the file system: the configure tool
\* makes the build directory, the install step writes an artifact and the
\* manifest naming it, the removal utility removes its operand
Effect(cmd, f) ==
    IF cmd[1] \in {Str("rm"), Str("del")}
    THEN [p \in (DOMAIN f) \ {cmd[2]} |-> f[p]]
    ELSE IF cmd[2] = Str("-S")
    THEN [p \in (DOMAIN f) \cup {cmd[5]} |-> IF p \in DOMAIN f THEN f[p] ELSE <<>>]
    ELSE IF cmd[2] = Str("--install")
    THEN LET m == OspJoin(cmd[3], <<"install_manifest", DOT, "txt">>)
         IN [p \in (DOMAIN f) \cup {cmd[3], m, LibA} |->
                IF p = m THEN LibA ELSE IF p \in DOMAIN f THEN f[p] ELSE <<>>]
    ELSE f

\* _run_single_cmd without the dry-run return
_run_single_cmd_no_dry_run ==
    /\ pc = "run"
    /\ proc.stage = "none"
    /\ idx <= Len(batch)
    /\ log' = Append(log, HeaderLine(header, batch[idx]))
    /\ \E sc \in Scripts(MaxLines - LinesOf(launched)) :
          /\ proc' = [stage |-> "stdout", script |-> sc, out |-> 0, err |-> 0,
                      exited |-> FALSE, code |-> 0]
          /\ launched' = Append(launched,
                 [target |-> cur, phase |-> phase, index |-> idx,
                  cmd |-> batch[idx], shell |-> Ext.cmd_in_shell,
                  lines |-> Len(sc), exited |-> FALSE, code |-> 0])
    /\ UNCHANGED idx
    /\ UNCHANGED <<osName, args, specs, heap, extensions, fs, fs0, pc, cur, phase,
                   batch, header, phases, caught, raised, exitStatus>>

\* _run_single_cmd up to the Popen: print the command line; in dry-run mode
\* return 0, else launch the child with both streams piped
_run_single_cmd ==
    /\ pc = "run"
    /\ proc.stage = "none"
    /\ idx <= Len(batch)
    /\ log' = Append(log, HeaderLine(header, batch[idx]))
    /\ IF Ext.dry_run
       THEN /\ idx' = idx + 1
            /\ UNCHANGED <<proc, launched>>
       ELSE /\ \E sc \in Scripts(MaxLines - LinesOf(launched)) :
                  /\ proc' = [stage |-> "stdout", script |-> sc, out |-> 0,
                              err |-> 0, exited |-> FALSE, code |-> 0]
                  /\ launched' = Append(launched,
                         [target |-> cur, phase |-> phase, index |-> idx,
                          cmd |-> batch[idx], shell |-> Ext.cmd_in_shell,
                          lines |-> Len(sc), exited |-> FALSE, code |-> 0])
            /\ UNCHANGED idx
    /\ UNCHANGED <<osName, args, specs, heap, extensions, fs, fs0, pc, cur, phase,
                   batch, header, phases, caught, raised, exitStatus>>

\* the child writes its next line; the write blocks while the pipe is full
child_write ==
    /\ proc.stage # "none"
    /\ ~proc.exited
    /\ proc.script # <<>>
    /\ IF Head(proc.script) = "out"
       THEN /\ proc.out < PipeCap
            /\ proc' = [proc EXCEPT !.out = @ + 1, !.script = Tail(@)]
       ELSE /\ proc.err < PipeCap
            /\ proc' = [proc EXCEPT !.err = @ + 1, !.script = Tail(@)]
    /\ UNCHANGED <<osName, args, specs, heap, extensions, fs, fs0, pc, cur, phase,
                   batch, idx, header, log, launched, phases, caught, raised, exitStatus>>

\* the child has written all its lines and exits, closing both pipes
child_exit ==
    /\ proc.stage # "none"
    /\ ~proc.exited
    /\ proc.script = <<>>
    /\ \E code \in ExitCodes :
          /\ proc' = [proc EXCEPT !.exited = TRUE, !.code = code]
          /\ launched' = [launched EXCEPT ![Len(launched)].exited = TRUE,
                                          ![Len(launched)].code = code]
          /\ fs' = IF code = 0 THEN Effect(batch[idx], fs) ELSE fs
    /\ UNCHANGED <<osName, args, specs, heap, extensions, fs0, pc, cur, phase,
                   batch, idx, header, log, phases, caught, raised, exitStatus>>

\* "for line_bytes in proc.stdout": print a line, or leave the loop at EOF;
\* the read blocks while the pipe is empty and the child has it open
read_stdout ==
    /\ proc.stage = "stdout"
    /\ proc.out > 0 \/ proc.exited
    /\ IF proc.out > 0
       THEN /\ proc' = [proc EXCEPT !.out = @ - 1]
            /\ log' = Append(log, OutputLine("out", header))
       ELSE /\ proc' = [proc EXCEPT !.stage = "stderr"]
            /\ UNCHANGED log
    /\ UNCHANGED <<osName, args, specs, heap, extensions, fs, fs0, pc, cur, phase,
                   batch, idx, header, launched, phases, caught, raised, exitStatus>>

\* "for line_bytes in proc.stderr", entered once stdout is at EOF
read_stderr ==
    /\ proc.stage = "stderr"
    /\ proc.err > 0 \/ proc.exited
    /\ IF proc.err > 0
       THEN /\ proc' = [proc EXCEPT !.err = @ - 1]
            /\ log' = Append(log, OutputLine("err", header))
       ELSE /\ proc' = [proc EXCEPT !.stage = "wait"]
            /\ UNCHANGED log
    /\ UNCHANGED <<osName, args, specs, heap, extensions, fs, fs0, pc, cur, phase,
                   batch, idx, header, launched, phases, caught, raised, exitStatus>>

\* proc.wait() with the exit code ignored
wait_ignoring_code ==
    /\ proc.stage = "wait"
    /\ proc.exited
    /\ proc' = NoProc
    /\ idx' = idx + 1
    /\ UNCHANGED <<pc, caught, raised, exitStatus>>
    /\ UNCHANGED <<osName, args, specs, heap, extensions, fs, fs0, cur, phase,
                   batch, header, log, launched, phases>>

\* proc.wait() with a failed command run again instead of raising
wait_retrying ==
    /\ proc.stage = "wait"
    /\ proc.exited
    /\ proc' = NoProc
    /\ idx' = IF proc.code # 0 THEN idx ELSE idx + 1
    /\ UNCHANGED <<pc, caught, raised, exitStatus>>
    /\ UNCHANGED <<osName, args, specs, heap, extensions, fs, fs0, cur, phase,
                   batch, header, log, launched, phases>>

\* proc.wait(): a non-zero code raises SubCommandError, which no phase
\* operation handles and main() catches with "pass" before it returns
wait ==
    /\ proc.stage = "wait"
    /\ proc.exited
    /\ proc' = NoProc
    /\ IF proc.code # 0
       THEN /\ raised' = SubCommandError
            /\ caught' = TRUE
            /\ MainReturns
            /\ UNCHANGED idx
       ELSE /\ idx' = idx + 1
            /\ UNCHANGED <<pc, caught, raised, exitStatus>>
    /\ UNCHANGED <<osName, args, specs, heap, extensions, fs, fs0, cur, phase,
                   batch, header, log, launched, phases>>

Next ==
    \/ main_construct
    \/ main_end
    \/ clean
    \/ clean_return
    \/ configure
    \/ build
    \/ build_post
    \/ stubgen
    \/ main_next
    \/ _run_single_cmd
    \/ child_write
    \/ child_exit
    \/ read_stdout
    \/ read_stderr
    \/ wait

Spec == Init /\ [][Next]_vars

(***************************************************************************)
(* Properties.                                                             *)
(***************************************************************************)
Failed(i) == launched[i].exited /\ launched[i].code # 0

Range(q) == {q[i] : i \in 1..Len(q)}

IsPrefix(a, b) == Len(a) <= Len(b) /\ a = SubSeq(b, 1, Len(a))

\* C1: in an invocation without --clean a command that exits non-zero is the
\* last command the invocation launches: after a failed configure command
\* no build, post-build or stub-generation command is launched, after a
\* failed build or post-build command no later one.
C1_FailureEndsDefaultRun ==
    ~args.clean =>
        /\ \A i \in 1..Len(launched) : Failed(i) => i = Len(launched)
        /\ \A i \in 1..Len(launched) :
              launched[i].phase # "configure" =>
                 \E j \in 1..(i - 1) :
                    /\ launched[j].phase = "configure"
                    /\ launched[j].target = launched[i].target
                    /\ launched[j].exited /\ launched[j].code = 0

\* a configure command failed and the invocation ended with nothing else run
C1_Witness ==
    /\ ~args.clean
    /\ pc = "done"
    /\ Len(launched) = 1
    /\ launched[1].phase = "configure"
    /\ Failed(1)

\* the command lines a default dry-run prints for target t, in order
DryRunLines(t) ==
    << HeaderLine("[CMAKE]", _get_configure_cmd(extensions[t])),
       HeaderLine("[BUILD]", _get_build_cmd(extensions[t])),
       HeaderLine("[BUILD]", _get_post_build_cmd(extensions[t])),
       HeaderLine("[STUB]", _get_stub_gen_cmd(extensions[t])) >>

RECURSIVE DryRunLog(_)
DryRunLog(n) == IF n = 0 THEN <<>> ELSE DryRunLog(n - 1) \o DryRunLines(n)

\* C2: with the dry-run flag set no subprocess is ever launched, the file
\* system stays as it was, no invocation fails, every printed line is the
\* command line of an invocation, and a default dry-run ends having printed
\* the configure, build, post-build and stub-generation command lines of
\* each target in that order; a --clean dry-run ends having printed the
\* command lines of the clean batch.
C2_DryRunLaunchesNothing ==
    args.dry_run =>
        /\ launched = <<>>
        /\ proc = NoProc
        /\ fs = fs0
        /\ ~caught
        /\ \A i \in 1..Len(log) : log[i].kind = "cmd"
        /\ ~args.clean => IsPrefix(log, DryRunLog(Len(extensions)))
        /\ (pc = "done" /\ ~args.clean) => log = DryRunLog(Len(extensions))
        /\ (pc = "done" /\ args.clean) =>
               log = [i \in 1..Len(batch) |-> HeaderLine("[CLEAN]", batch[i])]

\* a default dry-run of two targets has ended with its eight lines printed
C2_Witness ==
    /\ args.dry_run
    /\ ~args.clean
    /\ pc = "done"
    /\ Len(extensions) = 2
    /\ Len(log) = 8

\* C3: the commands of a batch are launched in list order, each only after
\* the one before it has terminated with exit code 0; a command that exits
\* non-zero is the last one launched, the failure reaches the caller of the
\* phase, and without a failure the whole batch is run.
C3_BatchInOrderUntilFailure ==
    (phase = "clean" /\ ~args.dry_run) =>
        /\ Len(launched) <= Len(batch)
        /\ \A i \in 1..Len(launched) :
              /\ launched[i].cmd = batch[i]
              /\ i < Len(launched) => launched[i].exited /\ launched[i].code = 0
        /\ pc = "done" =>
              IF \E i \in 1..Len(launched) : Failed(i)
              THEN caught
              ELSE ~caught /\ Len(launched) = Len(batch)

\* the second of at least three commands of a clean batch failed and the
\* invocation ended without the third
C3_Witness ==
    /\ phase = "clean"
    /\ pc = "done"
    /\ Len(batch) >= 3
    /\ Len(launched) = 2
    /\ Failed(2)
    /\ caught

\* C4: the runner and a live child are never both blocked, the runner
\* reading an empty stdout pipe the child still holds open while the child
\* waits to write to a full stderr pipe.
C4_NeverBothBlocked ==
    ~ ( /\ proc.stage = "stdout"
        /\ proc.out = 0
        /\ ~proc.exited
        /\ proc.script # <<>>
        /\ Head(proc.script) = "err"
        /\ proc.err >= PipeCap )

\* C5: clean() on a target with neither output directory nor install
\* manifest launches no subprocess, changes no file, does not invoke the
\* runner and reports that there is nothing to clean.
C5_NothingToClean ==
    (args.clean /\ BinDir1 \notin DOMAIN fs0 /\ Manifest1 \notin DOMAIN fs0) =>
        /\ launched = <<>>
        /\ fs = fs0
        /\ \A i \in 1..Len(log) : log[i].kind # "cmd"
        /\ pc = "done" => \E i \in 1..Len(log) : log[i].kind = "msg"

\* the installed path a manifest line names: the line without its terminator
PathOfLine(line) ==
    IF line # <<>> /\ line[Len(line)] = NL THEN SubSeq(line, 1, Len(line) - 1)
    ELSE line

\* the path with everything from its first "." onward replaced by ".pyi"
StubOf(path) == SplitDotHead(path) \o <<DOT, "pyi">>

\* C7: the batch clean() computes from an install manifest holds, for every
\* line naming a path that exists, a removal command for exactly that path
\* and, when the sibling stub path exists, one for the stub path.
C7_EveryManifestLineRemoved ==
    (phase = "clean" /\ fs = fs0 /\ Manifest1 \in DOMAIN fs) =>
        \A line \in Range(readlines(fs[Manifest1])) :
            LET path == PathOfLine(line)
            IN /\ path \in DOMAIN fs =>
                     \E c \in Range(batch) :
                         c = <<extensions[1].rm_cmd, path>>
               /\ StubOf(path) \in DOMAIN fs =>
                     \E c \in Range(batch) :
                         c = <<extensions[1].rm_cmd, StubOf(path)>>

\* C8: the process ends with status 0 when every command succeeded and with
\* a non-zero status when a command exited non-zero.
C8_ExitStatusTellsFailure ==
    pc = "done" =>
        IF \E i \in 1..Len(launched) : Failed(i)
        THEN exitStatus # 0
        ELSE exitStatus = 0

\* the configuration C is the mapping M with the defaults D merged in
MergedFrom(C, M, D) ==
    /\ Keys(C) = Keys(M) \cup Keys(D)
    /\ Len(C) = Cardinality(Keys(C))
    /\ \A k \in Keys(M) : Lookup(C, k) = Lookup(M, k)
    /\ \A k \in Keys(D) \ Keys(M) : Lookup(C, k) = Lookup(D, k)

\* C6: constructing a target from the mapping M leaves the target with a
\* configuration whose keys are those of M and of the defaults, that equals
\* M on every key of M and the defaults on every key only they have.
C6_CallerOverridesWin ==
    [][ Len(extensions') = Len(extensions) + 1 =>
            LET t == Len(extensions')
            IN MergedFrom(heap'[extensions'[t].cmake_extra_def],
                          heap[specs[t].cmake_extr_def],
                          _CMAKE_DEFAULT_DEF) ]_vars

\* a target was constructed from a mapping that sets pybind11_DIR and not
\* CMAKE_EXPORT_COMPILE_COMMANDS: it has the caller's value and the default
C6_Witness ==
    /\ Len(extensions) >= 1
    /\ specs[1].cmake_extr_def = CallerArg
    /\ LET C == heap[extensions[1].cmake_extra_def]
       IN /\ Len(C) = 3
          /\ Lookup(C, Str("pybind11_DIR")) = Str("/opt/pybind11")
          /\ Lookup(C, Str("CMAKE_EXPORT_COMPILE_COMMANDS")) = Str("ON")

\* the phase operations called on target t so far
PhasesOf(t) ==
    LET mine == SelectSeq(phases, LAMBDA e : e.target = t)
    IN [i \in 1..Len(mine) |-> mine[i].phase]

PhaseRank(ph) ==
    CASE ph = "configure" -> 1
      [] ph = "build" -> 2
      [] ph = "post_build" -> 2
      [] ph = "stubgen" -> 3
      [] OTHER -> 0

\* C9: the phase operations of a target are a prefix of configure, build,
\* stubgen, or with --clean of clean alone; a phase starts only when every
\* command launched before it has exited with 0; a --clean invocation
\* launches and prints only clean commands, a default one none; and an
\* invocation that ends without a failure has taken its path to the end.
C9_PhasePaths ==
    /\ \A t \in 1..Len(specs) :
          IsPrefix(PhasesOf(t),
                   IF args.clean THEN <<"clean">>
                   ELSE <<"configure", "build", "stubgen">>)
    /\ \A i \in 1..Len(launched) :
          /\ (launched[i].phase = "clean") = args.clean
          /\ \A j \in 1..(i - 1) :
                /\ launched[j].exited /\ launched[j].code = 0
                /\ launched[j].target = launched[i].target =>
                      PhaseRank(launched[j].phase) <= PhaseRank(launched[i].phase)
    /\ \A i \in 1..Len(log) :
          log[i].kind # "msg" => (log[i].header = "[CLEAN]") = args.clean
    /\ (pc = "run" /\ idx = 1 /\ proc.stage = "none") =>
          \A j \in 1..Len(launched) : launched[j].exited /\ launched[j].code = 0
    /\ (pc = "done" /\ ~caught) =>
          PhasesOf(1) = IF args.clean THEN <<"clean">>
                        ELSE <<"configure", "build", "stubgen">>

\* a default invocation has run configure, build, post-build and stubgen of
\* its target and ended
C9_Witness ==
    /\ ~args.clean
    /\ ~args.dry_run
    /\ pc = "done"
    /\ ~caught
    /\ Len(launched) = 4
    /\ PhasesOf(1) = <<"configure", "build", "stubgen">>

\* C10: targets run their commands through a shell and remove with del
\* exactly on an "nt" host, else without a shell and with rm; the configure
\* command is the configure tool, -S source dir, -B output dir, build type
\* Release, then -G Ninja exactly when the host is not "nt", then one
\* -D<key>=<value> per entry of the configuration in its iteration order.
C10_PlatformCommands ==
    LET nt == (osName = "nt")
        rm == IF nt THEN Str("del") ELSE Str("rm")
    IN /\ \A t \in 1..Len(extensions) :
             extensions[t].cmd_in_shell = nt /\ extensions[t].rm_cmd = rm
       /\ \A i \in 1..Len(launched) : launched[i].shell = nt
       /\ phase = "clean" =>
             \A j \in 2..Len(batch) : Len(batch[j]) = 2 /\ batch[j][1] = rm
       /\ phase = "configure" =>
             LET c == batch[1]
                 d == heap[specs[cur].cmake_extr_def]
                 g == IF nt THEN 0 ELSE 2
             IN /\ Len(c) = 6 + g + Len(d)
                /\ c[2] = Str("-S") /\ c[3] = specs[cur].cmake_src_dir
                /\ c[4] = Str("-B")
                /\ c[5] = specs[cur].cmake_src_dir \o <<"/", "cmake-build-release">>
                /\ c[6] = Str("-DCMAKE_BUILD_TYPE=Release")
                /\ nt => \A i \in 1..Len(c) : c[i] # Str("-G")
                /\ ~nt => c[7] = Str("-G") /\ c[8] = Str("Ninja")
                /\ \A i \in 1..Len(d) :
                      c[6 + g + i] = <<"-D">> \o d[i].k \o <<"=">> \o d[i].v

\* on an "nt" host the configure command of a target with three
\* configuration entries has been launched
C10_Witness ==
    /\ osName = "nt"
    /\ phase = "configure"
    /\ Len(launched) = 1
    /\ Len(heap[extensions[cur].cmake_extra_def]) = 3
    /\ Len(batch[1]) = 9

\* C11: a target owns its configuration mapping: constructing it leaves the
\* mapping the caller passed in as it was, and no two targets, constructed
\* from the same mapping or both without one, hold the same dict object, so
\* that a key set through one is never seen through the other.
C11_EachTargetOwnsItsMapping ==
    [][ Len(extensions') = Len(extensions) + 1 =>
            LET t == Len(extensions')
            IN /\ specs[t].cmake_extr_def = CallerArg =>
                     heap'[CallerArg] = heap[CallerArg]
               /\ \A u \in 1..(t - 1) :
                     extensions'[u].cmake_extra_def
                         # extensions'[t].cmake_extra_def ]_vars

\* the path a command of a clean batch acts on
CleanTarget(c) == IF Len(c) = 2 THEN c[2] ELSE c[3]

\* C12: every command of the batch clean() computes acts on a path that
\* exists when the batch is computed: no removal command names a missing
\* file and no clean command a missing output directory.
C12_CleanTargetsExist ==
    (phase = "clean" /\ fs = fs0) =>
        \A i \in 1..Len(batch) : CleanTarget(batch[i]) \in DOMAIN fs

IsRemoval(c) == c[1] \in {Str("rm"), Str("del")}

C14_PostBuildOnlyAfterBuild ==
    \A i \in 1..Len(launched) :
        /\ launched[i].phase = "post_build" =>
              /\ i > 1
              /\ launched[i - 1].phase = "build"
              /\ launched[i - 1].target = launched[i].target
              /\ launched[i - 1].exited /\ launched[i - 1].code = 0
        /\ (launched[i].phase = "build" /\ Failed(i)) =>
              /\ i = Len(launched)
              /\ proc.stage = "none" => caught /\ pc = "done"
              /\ PhasesOf(launched[i].target) = <<"configure", "build">>

\* the post-build command of a target has been launched after its build
\* command exited with 0
C14_Witness ==
    /\ Len(launched) = 3
    /\ launched[3].phase = "post_build"
    /\ launched[2].phase = "build"
    /\ launched[2].exited /\ launched[2].code = 0

\* the label a phase tags its lines with
LabelOf(ph) ==
    CASE ph = "configure" -> "[CMAKE]"
      [] ph = "build" -> "[BUILD]"
      [] ph = "post_build" -> "[BUILD]"
      [] ph = "stubgen" -> "[STUB]"
      [] ph = "clean" -> "[CLEAN]"
      [] OTHER -> ""

\* the command-line lines printed so far
CmdLines == SelectSeq(log, LAMBDA e : e.kind = "cmd")

\* the invocations of the current batch the runner has taken up
TakenUp == idx - 1 + (IF proc.stage # "none" THEN 1 ELSE 0)

\* the position in the log of the last command-line line before position p
LastCmdBefore(p) ==
    CHOOSE q \in 1..(p - 1) :
        log[q].kind = "cmd" /\ \A r \in (q + 1)..(p - 1) : log[r].kind # "cmd"

\* C15: each invocation the runner takes up, in dry-run mode or not, has
\* exactly one line with the label of its phase and its full command line,
\* printed before its subprocess is launched, and every output line of a
\* subprocess carries the label of the phase that launched it.
C15_OneHeaderThenLabelledOutput ==
    /\ ~args.dry_run =>
          /\ Len(CmdLines) = Len(launched)
          /\ \A i \in 1..Len(launched) :
                /\ CmdLines[i].header = LabelOf(launched[i].phase)
                /\ CmdLines[i].text = JoinSpace(launched[i].cmd)
    /\ pc = "run" =>
          /\ Len(CmdLines) >= TakenUp
          /\ \A j \in 1..TakenUp :
                LET e == CmdLines[Len(CmdLines) - TakenUp + j]
                IN e.header = LabelOf(phase) /\ e.text = JoinSpace(batch[j])
    /\ \A p \in 1..Len(log) :
          log[p].kind \in {"out", "err"} =>
             /\ \E q \in 1..(p - 1) : log[q].kind = "cmd"
             /\ log[p].header = log[LastCmdBefore(p)].header
             /\ log[p].header # ""

\* a build command has printed a line of its own after a configure command
\* printed one
C15_Witness ==
    /\ Len(launched) = 2
    /\ Len(log) = 4
    /\ log[2].kind = "err" /\ log[2].header = "[CMAKE]"
    /\ log[4].kind = "out" /\ log[4].header = "[BUILD]"

FullPath == IF args.clean THEN <<"clean">> ELSE <<"configure", "build", "stubgen">>

\* C17: the listed targets are processed one at a time in list order, no
\* command of a later target launched before every command of the earlier
\* ones has terminated, and an invocation that ends without a failure has
\* processed every listed target: configure, build, stubgen each, or with
\* --clean a clean() each.
C17_EveryListedTargetProcessed ==
    /\ \A i \in 1..Len(launched) : \A j \in (i + 1)..Len(launched) :
          /\ launched[i].target <= launched[j].target
          /\ launched[i].exited
    /\ \A i \in 1..Len(phases) : \A j \in (i + 1)..Len(phases) :
          phases[i].target <= phases[j].target
    /\ (pc = "done" /\ ~caught) =>
          \A t \in 1..Len(specs) : PhasesOf(t) = FullPath

\* C18: no invocation of a phase of a target is launched twice and no phase
\* operation is called twice on a target; a command that exits non-zero is
\* the last subprocess of the invocation, which then ends with no phase of
\* any later listed target run.
C18_NoRetryNoneAfterFailure ==
    /\ \A i \in 1..Len(launched) : \A j \in (i + 1)..Len(launched) :
          <<launched[i].target, launched[i].phase, launched[i].index>>
              # <<launched[j].target, launched[j].phase, launched[j].index>>
    /\ \A i \in 1..Len(phases) : \A j \in (i + 1)..Len(phases) :
          phases[i] # phases[j]
    /\ \A i \in 1..Len(launched) :
          Failed(i) =>
             /\ i = Len(launched)
             /\ proc.stage = "none" => pc = "done"
             /\ \A t \in (launched[i].target + 1)..Len(specs) : PhasesOf(t) = <<>>

\* the stub generation of the first of two targets failed and the
\* invocation ended without touching the second
C18_Witness ==
    /\ Len(specs) = 2
    /\ pc = "done"
    /\ Len(launched) = 4
    /\ launched[4].phase = "stubgen"
    /\ Failed(4)
    /\ PhasesOf(2) = <<>>

====
